---- MODULE Spec2Model ----
(***************************************************************************)
(* Register Path: the registration, payment-reconciliation, check-in and   *)
(* reminder workflow of server/routes.ts, server/services/payments.ts,     *)
(* server/storage.ts and server/jobs/reminders.ts.                         *)
(*                                                                         *)
(* Every request is served by an async handler.  Node runs a handler       *)
(* without interruption between two awaits, so one action of the model is  *)
(* one awaited storage / provider call together with the synchronous code  *)
(* that follows it up to the next await.  Handlers of different requests   *)
(* interleave at these points.                                             *)
(***************************************************************************)
EXTENDS Integers, FiniteSets, Sequences, TLC

\* ---------------------------------------------------------------- bounds
NProcs == 2
\* concurrent request handlers
MaxCapacity == 2
\* largest event capacity tried
MaxRegs == 2
\* registrations rows the runs may create
MaxSeatInput == 2
\* largest seat count a request asks for
MaxCompletions == 2
\* complete-registration calls that pass the guard
MaxTime == 2
\* clock ticks (one tick = one cron period of 10 minutes)
MaxEvents == 3
\* events rows the runs may hold
MaxCodes == 3
\* ticket codes the generator may return when its output is left open

\* ------------------------------------------------------ program constants
MinSeats == 1
MaxSeats == 4
WindowLo == 138
\* 23 h in ticks of 10 minutes
WindowHi == 144
\* 24 h in ticks of 10 minutes

Procs == 1..NProcs
EventIds == {1}
UnknownId == 0
RegIds == 1..MaxRegs
SeatInputs == 0..MaxSeatInput
Prices == {0, 10}

VARIABLES
    events,         \* events table: id -> row
    registrations,  \* registrations table: set of rows
    tickets,        \* tickets table: set of rows
    payments,       \* payments table: set of rows
    nextRegId,      \* next registrations.id (gen_random_uuid, named in order)
    nextTicketId,   \* next tickets.id
    stripe,         \* provider side: intent id -> status
    refunds,        \* provider side: intents with a refund
    notifications,  \* provider side: signed events emitted so far
    h,              \* the request handlers: proc -> position and locals
    session,        \* express-session data of each caller's cookie
    now,            \* wall clock, in ticks
    reminders,      \* reminder e-mails handed to the sender: regId -> count
    reserved,       \* history: capacity writes done on behalf of a registration
    confirmations,  \* history: success notifications fully applied to a registration
    completions,    \* history: complete-registration calls past the guard
    sweeps          \* cron callbacks fired so far

vars == <<events, registrations, tickets, payments, nextRegId, nextTicketId,
          stripe, refunds, notifications, h, session, now, reminders,
          reserved, confirmations, completions, sweeps>>

db == <<events, registrations, tickets, payments, nextRegId, nextTicketId>>
provider == <<stripe, refunds, notifications>>
history == <<reserved, confirmations, completions, sweeps>>

\* ------------------------------------------------------------ storage.ts
NoPatch == [f \in {} |-> 0]

Patch(row, patch) ==
    [f \in DOMAIN row |-> IF f \in DOMAIN patch THEN patch[f] ELSE row[f]]

EventExists(id) == id \in DOMAIN events

getRegistration(id) == {r \in registrations : r.id = id}

getTicketByCode(code) == {t \in tickets : t.ticketCode = code}

getPaymentByIntentId(intent) == {q \in payments : q.stripePaymentIntentId = intent}

TicketsOf(regId) == {t \in tickets : t.registrationId = regId}

updateEventCapacity(id, remaining) ==
    IF EventExists(id)
    THEN [events EXCEPT ![id] = Patch(@, [remaining |-> remaining])]
    ELSE events

createRegistration(eventId, seats, status, totalAmount, paymentStatus) ==
    registrations \cup
        {[id |-> nextRegId, eventId |-> eventId, seats |-> seats, status |-> status,
          totalAmount |-> totalAmount, paymentStatus |-> paymentStatus]}

\* an update that is lost
updateRegistrationLost(id, patch) == registrations

updateRegistration(id, patch) ==
    {IF r.id = id THEN Patch(r, patch) ELSE r : r \in registrations}

updatePayment(id, patch) ==
    {IF q.id = id THEN Patch(q, patch) ELSE q : q \in payments}

\* a Payment stored as already settled
createPaymentSettled(regId, intent, amount) ==
    payments \cup
        {[id |-> intent, registrationId |-> regId, stripePaymentIntentId |-> intent,
          amount |-> amount, status |-> "completed"]}

createPayment(regId, intent, amount) ==
    payments \cup
        {[id |-> intent, registrationId |-> regId, stripePaymentIntentId |-> intent,
          amount |-> amount, status |-> "pending"]}

\* a tickets table without the unique constraint
TicketCodeNeverTaken(code) == FALSE

\* tickets.ticket_code is UNIQUE: an insert with a code already present throws
TicketCodeTaken(code) == getTicketByCode(code) # {}

createTicket(regId, code, qrData) ==
    tickets \cup
        {[id |-> nextTicketId, registrationId |-> regId, ticketCode |-> code,
          qrData |-> qrData, checkedIn |-> FALSE, checkedInAt |-> -1]}

\* an update that inverts the flag of the ticket
checkInTicketToggle(code) ==
    {IF t.ticketCode = code
     THEN Patch(t, [checkedIn |-> ~t.checkedIn, checkedInAt |-> now])
     ELSE t : t \in tickets}

checkInTicket(code) ==
    {IF t.ticketCode = code
     THEN Patch(t, [checkedIn |-> TRUE, checkedInAt |-> now])
     ELSE t : t \in tickets}

\* ---------------------------------------------------------- services/qr.ts
\* RP-<Date.now() in base 36>-<randomBytes(4) in hex>, upper-cased.  Two calls
\* return the same string only if the 32 random bits repeat within one
\* millisecond; the model takes the codes of one run to be different and names
\* each by the id of the ticket it is generated for.
generateTicketCode == nextTicketId

generateQRData(code) == <<"/api/verify-ticket/", code>>

\* ----------------------------------------------------------- the handlers
Idle ==
    [pc |-> "idle", op |-> "none", eventId |-> UnknownId, seats |-> 0, remaining |-> 0,
     amount |-> 0, regId |-> UnknownId, i |-> 0, key |-> UnknownId, queue |-> <<>>,
     newEventData |-> NoPatch, ticket |-> NoPatch, body |-> NoPatch, result |-> "none"]

Free(p) == h[p].pc \in {"idle", "done"}

Goto(p, pc, patch) == h' = [h EXCEPT ![p] = Patch(Patch(@, patch), [pc |-> pc])]

Begin(p, op, pc, patch) ==
    h' = [h EXCEPT ![p] = Patch(Patch(Idle, patch), [pc |-> pc, op |-> op])]

\* the answer leaves the handler; of its locals only what the answer carries stays
Respond(p, result) ==
    h' = [h EXCEPT ![p] = Patch(@, [pc |-> "done", amount |-> 0, i |-> 0, queue |-> <<>>,
                                    newEventData |-> NoPatch, ticket |-> NoPatch,
                                    result |-> result])]

Answer(p, op, patch, result) ==
    h' = [h EXCEPT ![p] = Patch(Patch(Idle, patch), [pc |-> "done", op |-> op, result |-> result])]

Creating == {p \in Procs : h[p].pc \in {"reg_waitlist", "reg_free_create", "reg_paid_create"}}

\* the runs create at most limit registrations rows
RoomForRegistration(limit) == nextRegId + Cardinality(Creating) <= limit

\* ------------------------------------------- routes.ts POST /api/register
\* a schema that accepts every body
registerSchemaAny(seats, contactOk) == TRUE

registerSchema(seats, contactOk) == contactOk /\ seats >= MinSeats /\ seats <= MaxSeats

\* a capacity check that lets every request through
SeatsAlwaysAvailable(event, seats) == TRUE

SeatsAvailable(event, seats) == ~(event.remaining < seats)

totalAmount(event, seats) == event.price * seats

\* parse, getEvent, the capacity check and the choice of path
Register(p, eventId, seats, contactOk) ==
    /\ Free(p)
    /\ UNCHANGED <<db, provider, now, session, reminders, history>>
    /\ IF ~registerSchema(seats, contactOk) THEN Answer(p, "register", NoPatch, "invalid")
       ELSE IF ~EventExists(eventId) THEN Answer(p, "register", NoPatch, "not_found")
       ELSE LET event == events[eventId]
                snap == [eventId |-> eventId, seats |-> seats, remaining |-> event.remaining,
                         amount |-> totalAmount(event, seats)]
            IN  IF ~SeatsAvailable(event, seats)
                THEN IF event.allowWaitlist
                     THEN Begin(p, "register", "reg_waitlist", snap)
                     ELSE Answer(p, "register", [snap EXCEPT !.amount = 0], "full")
                ELSE IF snap.amount = 0
                     THEN Begin(p, "register", "reg_free_create", snap)
                     ELSE Begin(p, "register", "reg_paid_create", snap)

\* registrations, tickets and payments reference their parent row: an insert
\* whose parent is gone violates the foreign key and throws
InsertRefused(p) ==
    /\ Respond(p, "error")
    /\ UNCHANGED <<registrations, tickets, payments, nextRegId, nextTicketId>>

RegisterWaitlist(p) ==
    /\ h[p].pc = "reg_waitlist"
    /\ IF ~EventExists(h[p].eventId) THEN InsertRefused(p)
       ELSE /\ registrations' =
                 createRegistration(h[p].eventId, h[p].seats, "waitlist", 0, "pending")
            /\ nextRegId' = nextRegId + 1
            /\ h' = [h EXCEPT ![p] = Patch(@, [pc |-> "done", amount |-> 0, regId |-> nextRegId,
                                               result |-> "waitlist"])]
            /\ UNCHANGED <<tickets, payments, nextTicketId>>
    /\ UNCHANGED <<events, provider, now, session, reminders, history>>

RegisterFreeCreate(p) ==
    /\ h[p].pc = "reg_free_create"
    /\ IF ~EventExists(h[p].eventId) THEN InsertRefused(p)
       ELSE /\ registrations' =
                 createRegistration(h[p].eventId, h[p].seats, "confirmed", 0, "completed")
            /\ nextRegId' = nextRegId + 1
            /\ Goto(p, "reg_free_capacity", [regId |-> nextRegId])
            /\ UNCHANGED <<tickets, payments, nextTicketId>>
    /\ UNCHANGED <<events, provider, now, session, reminders, history>>

Reserve(regId) == [reserved EXCEPT ![regId] = @ + 1]

RegisterFreeCapacity(p) ==
    /\ h[p].pc = "reg_free_capacity"
    /\ events' = updateEventCapacity(h[p].eventId, h[p].remaining - h[p].seats)
    /\ reserved' = Reserve(h[p].regId)
    /\ Goto(p, "reg_free_ticket", [i |-> 0])
    /\ UNCHANGED <<registrations, tickets, payments, nextRegId, nextTicketId, provider,
                   now, session, reminders, confirmations, completions, sweeps>>

\* one turn of the ticket loop: generate a code, insert the ticket
MintTicket(p, code, next) ==
    IF TicketCodeTaken(code) \/ getRegistration(h[p].regId) = {}
    THEN /\ Respond(p, "error")
         /\ UNCHANGED <<tickets, nextTicketId>>
    ELSE /\ tickets' = createTicket(h[p].regId, code, generateQRData(code))
         /\ nextTicketId' = nextTicketId + 1
         /\ IF h[p].i + 1 < h[p].seats
            THEN Goto(p, h[p].pc, [i |-> h[p].i + 1])
            ELSE Goto(p, next, [i |-> h[p].i + 1])

RegisterFreeTicket(p) ==
    /\ h[p].pc = "reg_free_ticket"
    /\ MintTicket(p, generateTicketCode, "reg_free_email")
    /\ UNCHANGED <<events, registrations, payments, nextRegId, provider, now, session, reminders, history>>

\* the same turn of the loop with the random part of the code left open: the
\* generator may return a code that a ticket already carries
TicketCodes == 1..MaxCodes

RegisterFreeTicketDrawn(p) ==
    /\ h[p].pc = "reg_free_ticket"
    /\ \E code \in TicketCodes : MintTicket(p, code, "reg_free_email")
    /\ UNCHANGED <<events, registrations, payments, nextRegId, provider, now, session, reminders, history>>

\* sendConfirmationEmail is awaited inside the handler's try: a transport error
\* reaches the catch and the request answers 500
RegisterFreeEmail(p) ==
    /\ h[p].pc = "reg_free_email"
    /\ \E sent \in BOOLEAN : Respond(p, IF sent THEN "confirmed" ELSE "error")
    /\ UNCHANGED <<db, provider, now, session, reminders, history>>

\* a storage call of the free path rejects (connection lost, constraint
\* violated): the catch answers 500 and nothing is undone
RegisterFreeCapacityFails(p) ==
    /\ h[p].pc = "reg_free_capacity"
    /\ Respond(p, "error")
    /\ UNCHANGED <<db, provider, now, session, reminders, history>>

RegisterFreeTicketFails(p) ==
    /\ h[p].pc = "reg_free_ticket"
    /\ Respond(p, "error")
    /\ UNCHANGED <<db, provider, now, session, reminders, history>>

\* a paid path that writes its row as the free path does
RegisterPaidCreateCompleted(p) ==
    /\ h[p].pc = "reg_paid_create"
    /\ registrations' = createRegistration(h[p].eventId, h[p].seats, "confirmed",
                                            h[p].amount, "completed")
    /\ nextRegId' = nextRegId + 1
    /\ Goto(p, "reg_paid_intent", [regId |-> nextRegId])
    /\ UNCHANGED <<events, tickets, payments, nextTicketId, provider, now, session, reminders, history>>

RegisterPaidCreate(p) ==
    /\ h[p].pc = "reg_paid_create"
    /\ IF ~EventExists(h[p].eventId) THEN InsertRefused(p)
       ELSE /\ registrations' = createRegistration(h[p].eventId, h[p].seats, "confirmed",
                                                    h[p].amount, "pending")
            /\ nextRegId' = nextRegId + 1
            /\ Goto(p, "reg_paid_intent", [regId |-> nextRegId])
            /\ UNCHANGED <<tickets, payments, nextTicketId>>
    /\ UNCHANGED <<events, provider, now, session, reminders, history>>

\* services/payments.ts createPaymentIntent: the provider creates the intent or
\* the call throws; the intent is named after the registration in its metadata
RegisterPaidIntent(p) ==
    /\ h[p].pc = "reg_paid_intent"
    /\ \E created \in BOOLEAN :
         IF created
         THEN /\ stripe' = [stripe EXCEPT ![h[p].regId] = "requires_payment"]
              /\ Goto(p, "reg_paid_payment", [key |-> h[p].regId])
         ELSE /\ Respond(p, "error")
              /\ UNCHANGED stripe
    /\ UNCHANGED <<db, refunds, notifications, now, session, reminders, history>>

RegisterPaidPayment(p) ==
    /\ h[p].pc = "reg_paid_payment"
    /\ IF getRegistration(h[p].regId) = {} THEN InsertRefused(p)
       ELSE /\ payments' = createPayment(h[p].regId, h[p].key, h[p].amount)
            /\ Respond(p, "payment_required")
            /\ UNCHANGED <<registrations, tickets, nextRegId, nextTicketId>>
    /\ UNCHANGED <<events, provider, now, session, reminders, history>>

\* ------------------------------ routes.ts POST /api/complete-registration
CompleteGuardAnyStatus(regId) == getRegistration(regId) # {}

\* a guard that only refuses a failed payment
CompleteGuardNotFailed(regId) ==
    \E r \in getRegistration(regId) : r.paymentStatus # "failed"

CompleteGuard(regId) ==
    \E r \in getRegistration(regId) : r.paymentStatus = "completed"

Complete(p, regId) ==
    /\ Free(p)
    /\ IF CompleteGuard(regId)
       THEN /\ completions' = completions + 1
            /\ LET r == CHOOSE r \in getRegistration(regId) : TRUE IN
               Begin(p, "complete", "cmp_get_event",
                     [regId |-> regId, eventId |-> r.eventId, seats |-> r.seats])
       ELSE /\ Answer(p, "complete", [regId |-> regId], "conflict")
            /\ UNCHANGED completions
    /\ UNCHANGED <<db, provider, now, session, reminders, reserved, confirmations, sweeps>>

CompleteGetEvent(p) ==
    /\ h[p].pc = "cmp_get_event"
    /\ IF EventExists(h[p].eventId)
       THEN Goto(p, "cmp_capacity", [remaining |-> events[h[p].eventId].remaining])
       ELSE Goto(p, "cmp_ticket", [i |-> 0])
    /\ UNCHANGED <<db, provider, now, session, reminders, history>>

CompleteCapacity(p) ==
    /\ h[p].pc = "cmp_capacity"
    /\ events' = updateEventCapacity(h[p].eventId, h[p].remaining - h[p].seats)
    /\ reserved' = Reserve(h[p].regId)
    /\ Goto(p, "cmp_ticket", [i |-> 0])
    /\ UNCHANGED <<registrations, tickets, payments, nextRegId, nextTicketId, provider,
                   now, session, reminders, confirmations, completions, sweeps>>

CompleteTicket(p) ==
    /\ h[p].pc = "cmp_ticket"
    /\ MintTicket(p, generateTicketCode, "cmp_email")
    /\ UNCHANGED <<events, registrations, payments, nextRegId, provider, now, session, reminders, history>>

CompleteEmail(p) ==
    /\ h[p].pc = "cmp_email"
    /\ \E sent \in BOOLEAN : Respond(p, IF sent THEN "completed" ELSE "error")
    /\ UNCHANGED <<db, provider, now, session, reminders, history>>

\* ----------------- routes.ts POST /api/stripe-webhook, handleWebhookEvent
\* constructEvent rejects a body whose signature does not verify
WebhookForged(p) ==
    /\ Free(p)
    /\ Answer(p, "webhook", NoPatch, "rejected")
    /\ UNCHANGED <<db, provider, now, session, reminders, history>>

\* payment_intent.succeeded: confirmPayment, which first asks the provider
WebhookSucceeded(p, intent) ==
    /\ Free(p)
    /\ <<"succeeded", intent>> \in notifications
    /\ IF stripe[intent] = "succeeded"
       THEN Begin(p, "webhook", "wh_get_payment", [key |-> intent])
       ELSE Answer(p, "webhook", [key |-> intent], "received")
    /\ UNCHANGED <<db, provider, now, session, reminders, history>>

ConfirmGetPayment(p) ==
    /\ h[p].pc = "wh_get_payment"
    /\ IF getPaymentByIntentId(h[p].key) # {}
       THEN LET q == CHOOSE q \in getPaymentByIntentId(h[p].key) : TRUE IN
            Goto(p, "wh_update_payment", [regId |-> q.registrationId])
       ELSE Respond(p, "received")
    /\ UNCHANGED <<db, provider, now, session, reminders, history>>

ConfirmUpdatePayment(p) ==
    /\ h[p].pc = "wh_update_payment"
    /\ payments' = updatePayment(h[p].key, [status |-> "succeeded"])
    /\ Goto(p, "wh_update_registration", NoPatch)
    /\ UNCHANGED <<events, registrations, tickets, nextRegId, nextTicketId, provider,
                   now, session, reminders, history>>

Confirmed(regId) == [confirmations EXCEPT ![regId] = IF @ < 2 THEN @ + 1 ELSE @]

ConfirmUpdateRegistration(p) ==
    /\ h[p].pc = "wh_update_registration"
    /\ registrations' = updateRegistration(h[p].regId, [paymentStatus |-> "completed"])
    /\ confirmations' = Confirmed(h[p].regId)
    /\ Respond(p, "received")
    /\ UNCHANGED <<events, tickets, payments, nextRegId, nextTicketId, provider,
                   now, session, reminders, reserved, completions, sweeps>>

\* payment_intent.payment_failed
WebhookFailed(p, intent) ==
    /\ Free(p)
    /\ <<"failed", intent>> \in notifications
    /\ IF getPaymentByIntentId(intent) # {}
       THEN LET q == CHOOSE q \in getPaymentByIntentId(intent) : TRUE IN
            Begin(p, "webhook", "wh_fail_payment", [key |-> intent, regId |-> q.registrationId])
       ELSE Answer(p, "webhook", [key |-> intent], "received")
    /\ UNCHANGED <<db, provider, now, session, reminders, history>>

FailUpdatePayment(p) ==
    /\ h[p].pc = "wh_fail_payment"
    /\ payments' = updatePayment(h[p].key, [status |-> "failed"])
    /\ Goto(p, "wh_fail_registration", NoPatch)
    /\ UNCHANGED <<events, registrations, tickets, nextRegId, nextTicketId, provider,
                   now, session, reminders, history>>

FailUpdateRegistration(p) ==
    /\ h[p].pc = "wh_fail_registration"
    /\ registrations' = updateRegistration(h[p].regId, [paymentStatus |-> "failed"])
    /\ Respond(p, "received")
    /\ UNCHANGED <<events, tickets, payments, nextRegId, nextTicketId, provider,
                   now, session, reminders, history>>

InWebhook(p) ==
    h[p].pc \in {"wh_get_payment", "wh_update_payment", "wh_update_registration",
                 "wh_fail_payment", "wh_fail_registration"}

\* a failure that is swallowed: the route acknowledges
WebhookStorageFailsSwallowed(p) ==
    /\ InWebhook(p)
    /\ Respond(p, "received")
    /\ UNCHANGED <<db, provider, now, session, reminders, history>>

\* a storage call of the handler rejects: handleWebhookEvent throws, the
\* route's catch answers 400 with the error's message
WebhookStorageFails(p) ==
    /\ InWebhook(p)
    /\ Respond(p, "error")
    /\ UNCHANGED <<db, provider, now, session, reminders, history>>

\* ------------------------------------- services/payments.ts refundPayment
\* refunds.create succeeds for a paid intent not refunded yet, and throws otherwise
Refund(p, intent) ==
    /\ Free(p)
    /\ stripe[intent] # "none"
    /\ IF stripe[intent] = "succeeded" /\ intent \notin refunds
       THEN /\ refunds' = refunds \cup {intent}
            /\ Begin(p, "refund", "rf_get_payment", [key |-> intent])
       ELSE /\ Answer(p, "refund", [key |-> intent], "error")
            /\ UNCHANGED refunds
    /\ UNCHANGED <<db, stripe, notifications, now, session, reminders, history>>

RefundGetPayment(p) ==
    /\ h[p].pc = "rf_get_payment"
    /\ IF getPaymentByIntentId(h[p].key) # {}
       THEN LET q == CHOOSE q \in getPaymentByIntentId(h[p].key) : TRUE IN
            Goto(p, "rf_update_payment", [regId |-> q.registrationId])
       ELSE Respond(p, "refunded")
    /\ UNCHANGED <<db, provider, now, session, reminders, history>>

RefundUpdatePayment(p) ==
    /\ h[p].pc = "rf_update_payment"
    /\ payments' = updatePayment(h[p].key, [status |-> "cancelled"])
    /\ Goto(p, "rf_update_registration", NoPatch)
    /\ UNCHANGED <<events, registrations, tickets, nextRegId, nextTicketId, provider,
                   now, session, reminders, history>>

RefundUpdateRegistration(p) ==
    /\ h[p].pc = "rf_update_registration"
    /\ registrations' = updateRegistration(h[p].regId,
                            [paymentStatus |-> "refunded", status |-> "cancelled"])
    /\ Respond(p, "refunded")
    /\ UNCHANGED <<events, tickets, payments, nextRegId, nextTicketId, provider,
                   now, session, reminders, history>>

\* ------------------------------ routes.ts GET /api/verify-ticket/:ticketCode
\* a flag that is not read from the ticket
checkedInFlagUnset(ticket) == FALSE

\* checkedIn: ticket.checkedIn of the answer
checkedInFlag(ticket) == ticket.checkedIn

Verify(p, code) ==
    /\ Free(p)
    /\ IF getTicketByCode(code) = {} THEN Answer(p, "verify", [key |-> code], "not_found")
       ELSE LET ticket == CHOOSE t \in getTicketByCode(code) : TRUE IN
            Begin(p, "verify", "vfy_get_registration",
                  [key |-> code, regId |-> ticket.registrationId, ticket |-> ticket])
    /\ UNCHANGED <<db, provider, now, session, reminders, history>>

VerifyGetRegistration(p) ==
    /\ h[p].pc = "vfy_get_registration"
    /\ IF getRegistration(h[p].regId) = {} THEN Respond(p, "not_found")
       ELSE Respond(p, IF checkedInFlag(h[p].ticket) THEN "valid_checked_in" ELSE "valid")
    /\ UNCHANGED <<db, provider, now, session, reminders, history>>

\* ------------------------------- routes.ts POST /api/checkin/:ticketCode
\* a check-in that does not look at the flag
CheckInUnguarded(p, code) ==
    /\ Free(p)
    /\ IF getTicketByCode(code) = {} THEN Answer(p, "checkin", [key |-> code], "not_found")
       ELSE LET ticket == CHOOSE t \in getTicketByCode(code) : TRUE IN
            Begin(p, "checkin", "chk_update", [key |-> code, regId |-> ticket.registrationId])
    /\ UNCHANGED <<db, provider, now, session, reminders, history>>

CheckIn(p, code) ==
    /\ Free(p)
    /\ IF getTicketByCode(code) = {} THEN Answer(p, "checkin", [key |-> code], "not_found")
       ELSE LET ticket == CHOOSE t \in getTicketByCode(code) : TRUE IN
            IF ticket.checkedIn
            THEN Answer(p, "checkin", [key |-> code], "already_checked_in")
            ELSE Begin(p, "checkin", "chk_update", [key |-> code, regId |-> ticket.registrationId])
    /\ UNCHANGED <<db, provider, now, session, reminders, history>>

\* checkInTicket, then getRegistration, whose row is only echoed in the answer
CheckInUpdate(p) ==
    /\ h[p].pc = "chk_update"
    /\ tickets' = checkInTicket(h[p].key)
    /\ Respond(p, "checked_in")
    /\ UNCHANGED <<events, registrations, payments, nextRegId, nextTicketId, provider,
                   now, session, reminders, history>>

\* ----------------------------------------- routes.ts the admin gate
\* process.env.ADMIN_PASSWORD
adminPassword == "secret"

\* the passwords a caller may send
Passwords == {adminPassword, "guess"}

\* POST /api/admin/login
Login(p, password) ==
    /\ Free(p)
    /\ IF password = adminPassword
       THEN /\ session' = [session EXCEPT ![p] = Patch(@, [isAdmin |-> TRUE])]
            /\ Answer(p, "login", [body |-> [password |-> password]], "logged_in")
       ELSE /\ Answer(p, "login", [body |-> [password |-> password]], "invalid_password")
            /\ UNCHANGED session
    /\ UNCHANGED <<db, provider, now, reminders, history>>

\* POST /api/admin/logout: session.destroy
Logout(p) ==
    /\ Free(p)
    /\ session' = [session EXCEPT ![p] = [isAdmin |-> FALSE]]
    /\ Answer(p, "logout", NoPatch, "logged_out")
    /\ UNCHANGED <<db, provider, now, reminders, history>>

\* a gate that lets every caller through
requireAdminOpen(p) == TRUE

\* requireAdmin: next() only for a session with isAdmin
requireAdmin(p) == session[p].isAdmin

\* the 401 of requireAdmin: the route's handler is not entered
Unauthorized(p, op) ==
    /\ Answer(p, op, NoPatch, "unauthorized")
    /\ UNCHANGED <<db, provider, session, now, reminders, history>>

\* the operations behind requireAdmin
AdminOps == {"stats", "list_events", "create_event", "update_event", "delete_event",
             "copy", "list_registrations", "export"}

\* GET /api/admin/stats
Stats(p) ==
    /\ Free(p)
    /\ IF ~requireAdmin(p) THEN Unauthorized(p, "stats")
       ELSE Answer(p, "stats",
                   [body |-> [totalEvents |-> Cardinality(DOMAIN events),
                              totalRegistrations |-> Cardinality(registrations)]], "ok")
    /\ UNCHANGED <<db, provider, session, now, reminders, history>>

\* GET /api/admin/events
ListEvents(p) ==
    /\ Free(p)
    /\ IF ~requireAdmin(p) THEN Unauthorized(p, "list_events")
       ELSE Answer(p, "list_events", [body |-> [events |-> DOMAIN events]], "ok")
    /\ UNCHANGED <<db, provider, session, now, reminders, history>>

\* GET /api/admin/events/:id/registrations and .../export: both answer with
\* getRegistrations(id), the export as CSV
ListRegistrations(p, op, id) ==
    /\ Free(p)
    /\ IF ~requireAdmin(p) THEN Unauthorized(p, op)
       ELSE Answer(p, op, [eventId |-> id,
                           body |-> [registrations |-> {r \in registrations : r.eventId = id}]],
                   "ok")
    /\ UNCHANGED <<db, provider, session, now, reminders, history>>

\* the id of the next events row (gen_random_uuid: unlike every id in the table)
newEventId ==
    IF DOMAIN events = {} THEN 1
    ELSE (CHOOSE m \in DOMAIN events : \A e \in DOMAIN events : e <= m) + 1

\* ------------------------ routes.ts POST /api/admin/events/:id/copy
\* createEvent inserting the row as it is handed over
createEventAsGiven(event) ==
    LET id == newEventId
    IN  [e \in DOMAIN events \cup {id} |-> IF e = id THEN event ELSE events[e]]

\* createEvent: remaining is set to the capacity of the row being inserted
createEvent(event) ==
    LET eventData == Patch(event, [remaining |-> event.capacity])
        id == newEventId
    IN  [e \in DOMAIN events \cup {id} |-> IF e = id THEN eventData ELSE events[e]]

\* the body of the copy request, as a Partial<InsertEvent>
Overrides ==
    {NoPatch} \cup {[capacity |-> c] : c \in 0..MaxCapacity}
              \cup {[allowWaitlist |-> b] : b \in BOOLEAN}

\* x || y on numbers
OrElse(x, y) == IF x # 0 THEN x ELSE y

\* copyEvent up to its createEvent call: getEvent, then newEventData
CopyEvent(p, id, overrides) ==
    /\ Free(p)
    /\ IF ~requireAdmin(p) THEN Unauthorized(p, "copy")
       ELSE IF ~EventExists(id) THEN Answer(p, "copy", NoPatch, "error")
       ELSE LET eventData == events[id]
                capacity == IF "capacity" \in DOMAIN overrides THEN overrides.capacity ELSE 0
                newEventData ==
                    Patch(Patch(eventData, overrides),
                          [remaining |-> OrElse(capacity, eventData.capacity)])
            IN  Begin(p, "copy", "copy_create", [eventId |-> id, newEventData |-> newEventData])
    /\ UNCHANGED <<db, provider, now, session, reminders, history>>

CopyCreate(p) ==
    /\ h[p].pc = "copy_create"
    /\ events' = createEvent(h[p].newEventData)
    /\ h' = [h EXCEPT ![p] = Patch(@, [pc |-> "done", key |-> newEventId,
                                       newEventData |-> NoPatch, result |-> "copied"])]
    /\ UNCHANGED <<registrations, tickets, payments, nextRegId, nextTicketId, provider,
                   now, session, reminders, history>>

\* --------------------------- routes.ts POST/PUT/DELETE /api/admin/events
\* the bodies of a create request that insertEventSchema accepts
NewEvents ==
    {[capacity |-> MaxCapacity, remaining |-> 0, price |-> 0, allowWaitlist |-> FALSE,
      startTime |-> WindowHi]}

\* the bodies of an update request: a Partial<InsertEvent>
Updates == {[allowWaitlist |-> TRUE]}

\* every body of a create request, with whatever remaining the caller sends
EventBodies ==
    {[capacity |-> c, remaining |-> r, price |-> price, allowWaitlist |-> FALSE,
      startTime |-> WindowHi] : c \in 0..MaxCapacity, r \in 0..MaxCapacity + 1, price \in Prices}

\* a create route that stores the body as it came
CreateEventKeeping(p, event) ==
    /\ Free(p)
    /\ IF ~requireAdmin(p)
       THEN Unauthorized(p, "create_event")
       ELSE /\ events' = createEventAsGiven(event)
            /\ Answer(p, "create_event", [key |-> newEventId, body |-> event], "created")
            /\ UNCHANGED <<registrations, tickets, payments, nextRegId, nextTicketId>>
    /\ UNCHANGED <<provider, session, now, reminders, history>>

CreateEvent(p, event) ==
    /\ Free(p)
    /\ IF ~requireAdmin(p)
       THEN Unauthorized(p, "create_event")
       ELSE /\ events' = createEvent(event)
            /\ Answer(p, "create_event", [key |-> newEventId, body |-> event], "created")
            /\ UNCHANGED <<registrations, tickets, payments, nextRegId, nextTicketId>>
    /\ UNCHANGED <<provider, session, now, reminders, history>>

\* storage.updateEvent: the columns of the body are set, nothing else
updateEvent(id, event) ==
    IF EventExists(id) THEN [events EXCEPT ![id] = Patch(@, event)] ELSE events

UpdateEvent(p, id, event) ==
    /\ Free(p)
    /\ IF ~requireAdmin(p)
       THEN Unauthorized(p, "update_event")
       ELSE /\ events' = updateEvent(id, event)
            /\ Answer(p, "update_event", [eventId |-> id], "updated")
            /\ UNCHANGED <<registrations, tickets, payments, nextRegId, nextTicketId>>
    /\ UNCHANGED <<provider, session, now, reminders, history>>

\* a foreign key that leaves the referencing rows where they are
onDeleteNoAction(rows, column, gone) == rows

\* references(..., { onDelete: "cascade" }): the rows referencing a deleted
\* row go with it, in the same statement
onDeleteCascade(rows, column, gone) == {r \in rows : r[column] \notin gone}

Ids(rows) == {r.id : r \in rows}

\* storage.deleteEvent: one DELETE on events
DeleteEvent(p, id) ==
    /\ Free(p)
    /\ IF ~requireAdmin(p)
       THEN Unauthorized(p, "delete_event")
       ELSE /\ events' = [e \in DOMAIN events \ {id} |-> events[e]]
            /\ registrations' = onDeleteCascade(registrations, "eventId", {id})
            /\ tickets' = onDeleteCascade(tickets, "registrationId",
                                          Ids(registrations) \ Ids(registrations'))
            /\ payments' = onDeleteCascade(payments, "registrationId",
                                           Ids(registrations) \ Ids(registrations'))
            /\ Answer(p, "delete_event", [eventId |-> id], "deleted")
            /\ UNCHANGED <<nextRegId, nextTicketId>>
    /\ UNCHANGED <<provider, session, now, reminders, history>>

\* storage.deleteRegistration: one DELETE on registrations; no route calls it
DeleteRegistration(id) ==
    /\ getRegistration(id) # {}
    /\ registrations' = {r \in registrations : r.id # id}
    /\ tickets' = onDeleteCascade(tickets, "registrationId", {id})
    /\ payments' = onDeleteCascade(payments, "registrationId", {id})
    /\ UNCHANGED <<events, nextRegId, nextTicketId, provider, h, session, now, reminders,
                   history>>

\* -------------------------------------- jobs/reminders.ts sendReminders
\* a window without its end points
InWindowOpen(start, t) == start > t + WindowLo /\ start < t + WindowHi

InWindow(start, t) == start >= t + WindowLo /\ start <= t + WindowHi

remindersToSend ==
    {r \in registrations :
        /\ r.status = "confirmed"
        /\ r.paymentStatus = "completed"
        /\ EventExists(r.eventId)
        /\ InWindow(events[r.eventId].startTime, now)}

\* getRegistrations orders by createdAt, newest first
RECURSIVE Newest(_)
Newest(ids) ==
    IF ids = {} THEN <<>>
    ELSE LET m == CHOOSE x \in ids : \A y \in ids : y <= x IN <<m>> \o Newest(ids \ {m})

\* the cron callback, fired once per period: select, then one send per
\* selected registration
Sweep(p) ==
    /\ Free(p)
    /\ sweeps = now
    /\ sweeps' = sweeps + 1
    /\ LET queue == Newest({r.id : r \in remindersToSend}) IN
       IF queue = <<>> THEN Answer(p, "sweep", NoPatch, "swept")
       ELSE Begin(p, "sweep", "sw_send", [queue |-> queue])
    /\ UNCHANGED <<db, provider, now, session, reminders, reserved, confirmations, completions>>

\* a loop without its try: a failed send ends the run
SweepSendAborting(p) ==
    /\ h[p].pc = "sw_send"
    /\ \E sent \in BOOLEAN :
         IF sent
         THEN /\ reminders' = [reminders EXCEPT ![Head(h[p].queue)] = @ + 1]
              /\ IF Tail(h[p].queue) = <<>>
                 THEN Respond(p, "swept")
                 ELSE Goto(p, "sw_send", [queue |-> Tail(h[p].queue)])
         ELSE /\ UNCHANGED reminders
              /\ Respond(p, "error")
    /\ UNCHANGED <<db, provider, now, session, history>>

\* sendReminderEmail inside the loop's try: a failed send is logged, the loop goes on
SweepSend(p) ==
    /\ h[p].pc = "sw_send"
    /\ \E sent \in BOOLEAN :
         reminders' = IF sent THEN [reminders EXCEPT ![Head(h[p].queue)] = @ + 1] ELSE reminders
    /\ IF Tail(h[p].queue) = <<>>
       THEN Respond(p, "swept")
       ELSE Goto(p, "sw_send", [queue |-> Tail(h[p].queue)])
    /\ UNCHANGED <<db, provider, now, session, history>>

\* a period of the cron schedule passes, once its callback has been started
Tick ==
    /\ now < MaxTime
    /\ sweeps > now
    /\ now' = now + 1
    /\ UNCHANGED <<db, provider, h, session, reminders, history>>

\* time passes (new Date() of a later call is later)
Elapse ==
    /\ now < MaxTime
    /\ now' = now + 1
    /\ UNCHANGED <<db, provider, h, session, reminders, history>>

\* ------------------------------------------------- the payment provider
\* the customer holds the client secret once register has answered, that is
\* once the Payment row is stored
CanPay(intent) == stripe[intent] = "requires_payment" /\ getPaymentByIntentId(intent) # {}

PaySucceeds(intent) ==
    /\ CanPay(intent)
    /\ stripe' = [stripe EXCEPT ![intent] = "succeeded"]
    /\ notifications' = notifications \cup {<<"succeeded", intent>>}
    /\ UNCHANGED <<db, refunds, h, now, session, reminders, history>>

\* an intent of the same provider account that no Payment row refers to: the
\* runs that use it create fewer than MaxRegs registrations, so no
\* registration takes its name
ForeignIntent == CHOOSE i \in RegIds : \A j \in RegIds : j <= i

PaidElsewhere ==
    /\ stripe[ForeignIntent] = "none"
    /\ stripe' = [stripe EXCEPT ![ForeignIntent] = "succeeded"]
    /\ notifications' = notifications \cup {<<"succeeded", ForeignIntent>>}
    /\ UNCHANGED <<db, refunds, h, now, session, reminders, history>>

FailedElsewhere ==
    /\ stripe[ForeignIntent] = "none"
    /\ <<"failed", ForeignIntent>> \notin notifications
    /\ notifications' = notifications \cup {<<"failed", ForeignIntent>>}
    /\ UNCHANGED <<db, stripe, refunds, h, now, session, reminders, history>>

PayFails(intent) ==
    /\ CanPay(intent)
    /\ notifications' = notifications \cup {<<"failed", intent>>}
    /\ UNCHANGED <<db, stripe, refunds, h, now, session, reminders, history>>

\* ------------------------------------------------------- specifications
\* one published event, created by createEvent (remaining = capacity)
InitWith(starts) ==
    /\ \E capacity \in 1..MaxCapacity, price \in Prices, allowWaitlist \in BOOLEAN,
          startTime \in starts :
         events = [e \in EventIds |->
                     [capacity |-> capacity, remaining |-> capacity, price |-> price,
                      allowWaitlist |-> allowWaitlist, startTime |-> startTime]]
    /\ registrations = {}
    /\ tickets = {}
    /\ payments = {}
    /\ nextRegId = 1
    /\ nextTicketId = 1
    /\ stripe = [i \in RegIds |-> "none"]
    /\ refunds = {}
    /\ notifications = {}
    /\ h = [p \in Procs |-> Idle]
    /\ session = [p \in Procs |-> [isAdmin |-> FALSE]]
    /\ now = 0
    /\ reminders = [r \in RegIds |-> 0]
    /\ reserved = [r \in RegIds |-> 0]
    /\ confirmations = [r \in RegIds |-> 0]
    /\ completions = 0
    /\ sweeps = 0

Init == InitWith({WindowHi})

RegisterStep(p, limit) ==
    \/ /\ RoomForRegistration(limit)
       /\ \E eventId \in EventIds \cup {UnknownId}, seats \in SeatInputs, contactOk \in BOOLEAN :
            Register(p, eventId, seats, contactOk)
    \/ RegisterWaitlist(p)
    \/ RegisterFreeCreate(p)
    \/ RegisterFreeCapacity(p)
    \/ RegisterFreeTicket(p)
    \/ RegisterFreeEmail(p)
    \/ RegisterPaidCreate(p)
    \/ RegisterPaidIntent(p)
    \/ RegisterPaidPayment(p)

CompleteStep(p) ==
    \/ /\ completions < MaxCompletions
       /\ \E regId \in RegIds : Complete(p, regId)
    \/ CompleteGetEvent(p)
    \/ CompleteCapacity(p)
    \/ CompleteTicket(p)
    \/ CompleteEmail(p)

WebhookStep(p) ==
    \/ WebhookForged(p)
    \/ \E intent \in RegIds : WebhookSucceeded(p, intent)
    \/ ConfirmGetPayment(p)
    \/ ConfirmUpdatePayment(p)
    \/ ConfirmUpdateRegistration(p)
    \/ \E intent \in RegIds : WebhookFailed(p, intent)
    \/ FailUpdatePayment(p)
    \/ FailUpdateRegistration(p)

RefundStep(p) ==
    \/ \E intent \in RegIds : Refund(p, intent)
    \/ RefundGetPayment(p)
    \/ RefundUpdatePayment(p)
    \/ RefundUpdateRegistration(p)

CheckInStep(p) ==
    \/ \E code \in {t.ticketCode : t \in tickets} \cup {UnknownId} : CheckIn(p, code)
    \/ CheckInUpdate(p)

Copying == {p \in Procs : h[p].pc = "copy_create"}

CopyStep(p) ==
    \/ /\ newEventId + Cardinality(Copying) <= MaxEvents
       /\ \E id \in EventIds \cup {UnknownId}, overrides \in Overrides : CopyEvent(p, id, overrides)
    \/ CopyCreate(p)

LoginStep(p) == \E password \in Passwords : Login(p, password)

DeleteStep(p) == \E id \in EventIds \cup {UnknownId} : DeleteEvent(p, id)

\* the requests behind requireAdmin, from any caller
AdminStep(p) ==
    \/ Stats(p)
    \/ ListEvents(p)
    \/ \E op \in {"list_registrations", "export"}, id \in EventIds : ListRegistrations(p, op, id)
    \/ /\ newEventId + Cardinality(Copying) <= MaxEvents
       /\ \E event \in NewEvents : CreateEvent(p, event)
    \/ \E id \in EventIds, event \in Updates : UpdateEvent(p, id, event)
    \/ DeleteStep(p)
    \/ /\ newEventId + Cardinality(Copying) <= MaxEvents
       /\ \E id \in EventIds : CopyEvent(p, id, NoPatch)
    \/ CopyCreate(p)

VerifyStep(p) ==
    \/ \E code \in {t.ticketCode : t \in tickets} \cup {UnknownId} : Verify(p, code)
    \/ VerifyGetRegistration(p)

SweepStep(p) ==
    \/ Sweep(p)
    \/ SweepSend(p)

ProviderStep ==
    \/ \E intent \in RegIds : PaySucceeds(intent)
    \/ \E intent \in RegIds : PayFails(intent)

\* concurrent register requests against one event
NextRegister == \E p \in Procs : RegisterStep(p, MaxRegs)

SpecRegister == Init /\ [][NextRegister]_vars

\* one request at a time: every handler runs alone, from start to answer
Solo == CHOOSE p \in Procs : TRUE

NextSolo ==
    \/ RegisterStep(Solo, MaxRegs)
    \/ CompleteStep(Solo)
    \/ WebhookStep(Solo)
    \/ ProviderStep

SpecSolo == Init /\ [][NextSolo]_vars

\* one registration and the concurrent handlers that reconcile its payment
NextPaid ==
    \/ \E p \in Procs : RegisterStep(p, 1) \/ CompleteStep(p) \/ WebhookStep(p) \/ RefundStep(p)
    \/ ProviderStep

SpecPaid == Init /\ [][NextPaid]_vars

\* check-in of the tickets of a registration, under concurrent scans
NextCheckIn == \E p \in Procs : RegisterStep(p, 1) \/ CheckInStep(p)

SpecCheckIn == Init /\ [][NextCheckIn]_vars

\* the reminder job: the clock advances and the cron callback fires
StartTimes == {WindowLo + 1, WindowHi + 1}

InitReminder == InitWith(StartTimes)

NextReminder ==
    \/ RegisterStep(Solo, 1)
    \/ \E p \in Procs : SweepStep(p)
    \/ Tick

SpecReminder == InitReminder /\ [][NextReminder]_vars

\* the reconciliation of one registration's payment, one request at a time
NextReconcile ==
    \/ RegisterStep(Solo, 1)
    \/ CompleteStep(Solo)
    \/ WebhookStep(Solo)
    \/ RefundStep(Solo)
    \/ ProviderStep

SpecReconcile == Init /\ [][NextReconcile]_vars

\* every writer of the tickets table, concurrently, on one registration
NextTicket == \E p \in Procs : RegisterStep(p, 1) \/ CompleteStep(p) \/ CheckInStep(p)

SpecTicket == Init /\ [][NextTicket]_vars

\* scans at the door over time: concurrent check-ins of one registration
NextDoor ==
    \/ \E p \in Procs : RegisterStep(p, 1) \/ CheckInStep(p)
    \/ Elapse

SpecDoor == Init /\ [][NextDoor]_vars

\* register, one request at a time, with storage calls that may reject
NextFault ==
    \/ RegisterStep(Solo, MaxRegs)
    \/ RegisterFreeCapacityFails(Solo)
    \/ RegisterFreeTicketFails(Solo)

SpecFault == Init /\ [][NextFault]_vars

\* the reminder job over several registrations, one handler at a time
NextBatch ==
    \/ RegisterStep(Solo, MaxRegs)
    \/ SweepStep(Solo)
    \/ Tick

SpecBatch == InitReminder /\ [][NextBatch]_vars

\* the reminder job next to the life of one registration: waitlisted,
\* pending, failed, completed, refunded
NextSeason ==
    \/ RegisterStep(Solo, 1)
    \/ WebhookStep(Solo)
    \/ RefundStep(Solo)
    \/ ProviderStep
    \/ SweepStep(Solo)
    \/ Tick

SpecSeason == InitReminder /\ [][NextSeason]_vars

\* the webhook route, one delivery at a time, with notifications of foreign
\* intents and storage calls that may reject
NextWebhook ==
    \/ RegisterStep(Solo, 1)
    \/ WebhookStep(Solo)
    \/ WebhookStorageFails(Solo)
    \/ ProviderStep
    \/ PaidElsewhere
    \/ FailedElsewhere

SpecWebhook == Init /\ [][NextWebhook]_vars

\* scanners at the door: concurrent verifications and check-ins
NextScan == \E p \in Procs : RegisterStep(p, 1) \/ CheckInStep(p) \/ VerifyStep(p)

SpecScan == Init /\ [][NextScan]_vars

\* the administration of events, next to a registration on the first event:
\* the admin's requests interleave with the visitor's
Admin == CHOOSE p \in Procs : p # Solo

NextAdmin ==
    \/ RegisterStep(Solo, 1)
    \/ \E password \in Passwords : Login(Admin, password)
    \/ CopyStep(Admin)

SpecAdmin == Init /\ [][NextAdmin]_vars

\* an event deleted under a registration in flight: the admin logs in and
\* deletes while a visitor registers
NextDelete ==
    \/ RegisterStep(Solo, MaxRegs)
    \/ LoginStep(Admin)
    \/ DeleteStep(Admin)
    \/ \E id \in RegIds : DeleteRegistration(id)

SpecDelete == Init /\ [][NextDelete]_vars

\* callers with and without an admin session at the admin routes
NextGate ==
    \/ \E p \in Procs : LoginStep(p) \/ Logout(p) \/ AdminStep(p)

SpecGate == Init /\ [][NextGate]_vars

\* the life of one paid registration up to the door, one request at a time:
\* payment, completion, refund, and the scan of its tickets
NextUsher ==
    \/ RegisterStep(Solo, 1)
    \/ CompleteStep(Solo)
    \/ WebhookStep(Solo)
    \/ RefundStep(Solo)
    \/ ProviderStep
    \/ CheckInStep(Solo)

SpecUsher == Init /\ [][NextUsher]_vars

\* concurrent registrations whose ticket codes may repeat
NextMint == \E p \in Procs : RegisterStep(p, MaxRegs) \/ RegisterFreeTicketDrawn(p)

SpecMint == Init /\ [][NextMint]_vars

\* the admin edits the event while a visitor registers
NextEdit ==
    \/ RegisterStep(Solo, 1)
    \/ LoginStep(Admin)
    \/ \E id \in EventIds, event \in Overrides : UpdateEvent(Admin, id, event)

SpecEdit == Init /\ [][NextEdit]_vars

\* the admin creates events from every body
NextCreate ==
    \/ LoginStep(Admin)
    \/ /\ newEventId <= MaxEvents
       /\ \E event \in EventBodies : CreateEvent(Admin, event)

SpecCreate == Init /\ [][NextCreate]_vars

\* ================================================================ claims
Quiet == \A p \in Procs : Free(p)

Answered(p, op) == h[p].pc = "done" /\ h[p].op = op

Row(regId) == CHOOSE r \in registrations : r.id = regId

\* C1: for every event 0 <= remaining <= capacity, in every state reachable
\* by register, completePendingRegistration, payment notifications and refund.
C1_RemainingInRange ==
    \A e \in DOMAIN events : 0 <= events[e].remaining /\ events[e].remaining <= events[e].capacity

\* C2: N one-seat register requests against a free event without waitlist and
\* with remaining = k < N: once all have answered, exactly k are confirmed and
\* the others failed for lack of capacity.
C2_ExactlyKConfirmed ==
    \A e \in DOMAIN events :
        LET confirmed == {p \in Procs : h[p].result = "confirmed"}
            k == events[e].capacity
        IN  (/\ events[e].price = 0
             /\ ~events[e].allowWaitlist
             /\ k < NProcs
             /\ \A p \in Procs : /\ Answered(p, "register")
                                 /\ h[p].eventId = e
                                 /\ h[p].seats = 1
                                 /\ h[p].result \in {"confirmed", "full"}
             /\ Cardinality(registrations) = Cardinality(confirmed))
            => Cardinality(confirmed) = k

\* C3: of two checkIn calls on the same ticket, one answers success and the
\* other AlreadyCheckedIn; never do two calls both answer success.
C3_OneCheckInSucceeds ==
    \A p, q \in Procs :
        (p # q /\ Answered(p, "checkin") /\ Answered(q, "checkin") /\ h[p].key = h[q].key)
        => ~(h[p].result = "checked_in" /\ h[q].result = "checked_in")

\* C4: after the success notification of an intent has been processed twice
\* (and no failure notification exists), the registration has paymentStatus
\* completed, exactly seats tickets, and remaining was lowered for it once.
C4_ReplayedSuccess ==
    \A r \in registrations :
        (Quiet /\ confirmations[r.id] >= 2 /\ <<"failed", r.id>> \notin notifications)
        => /\ r.paymentStatus = "completed"
           /\ Cardinality(TicketsOf(r.id)) = r.seats
           /\ reserved[r.id] = 1

\* C5: a register on a paid event with enough seats answers payment_required
\* (or fails when the provider creates no intent), and as long as no success
\* notification has been applied to a paid registration it owns no ticket and
\* no capacity write was made for it (with no other registration, remaining
\* still equals capacity).
C5_NoSeatBeforeSuccess ==
    /\ \A p \in Procs :
         (/\ Answered(p, "register")
          /\ h[p].eventId \in DOMAIN events
          /\ events[h[p].eventId].price > 0
          /\ h[p].remaining >= h[p].seats)
         => \/ h[p].result = "payment_required"
            \/ h[p].result = "error" /\ stripe[h[p].regId] = "none"
    /\ \A r \in registrations :
         (r.totalAmount > 0 /\ confirmations[r.id] = 0)
         => /\ TicketsOf(r.id) = {}
            /\ reserved[r.id] = 0
            /\ (registrations = {r} => events[r.eventId].remaining = events[r.eventId].capacity)

\* a paid register has answered payment_required, the payment has failed and
\* a complete-registration call for it was refused
C5_Witness ==
    \E p, q \in Procs :
        /\ Answered(p, "register") /\ h[p].result = "payment_required"
        /\ Answered(q, "complete") /\ h[q].result = "conflict" /\ h[q].regId = h[p].regId
        /\ Row(h[p].regId).paymentStatus = "failed"

\* C6: a register run alone on a free event with enough seats answers
\* confirmed, leaves a registration confirmed / completed, remaining lowered
\* by seats, and exactly seats unchecked tickets with distinct codes.
C6_FreeRegisterConfirmed ==
    \A p \in Procs :
        (/\ Answered(p, "register")
         /\ h[p].eventId \in DOMAIN events
         /\ events[h[p].eventId].price = 0
         /\ h[p].remaining >= h[p].seats)
        => /\ h[p].result = "confirmed"
           /\ \E r \in registrations :
                r.id = h[p].regId /\ r.status = "confirmed" /\ r.paymentStatus = "completed"
           /\ events[h[p].eventId].remaining = h[p].remaining - h[p].seats
           /\ Cardinality(TicketsOf(h[p].regId)) = h[p].seats
           /\ Cardinality({t.ticketCode : t \in TicketsOf(h[p].regId)}) = h[p].seats
           /\ \A t \in TicketsOf(h[p].regId) : ~t.checkedIn

\* C7: once a success notification has been processed for a payment that was
\* not succeeded, the payment is succeeded, the registration completed,
\* remaining was lowered for it and it owns exactly seats tickets.
C7_SuccessReserves ==
    \A r \in registrations :
        (Quiet /\ confirmations[r.id] = 1 /\ <<"failed", r.id>> \notin notifications)
        => /\ \A q \in getPaymentByIntentId(r.id) : q.status = "succeeded"
           /\ r.paymentStatus = "completed"
           /\ reserved[r.id] >= 1
           /\ Cardinality(TicketsOf(r.id)) = r.seats

\* C8: for a paid registration whose payment is completed, any number of
\* completePendingRegistration calls lower remaining once in total and leave
\* exactly seats tickets.
C8_CompleteIdempotent ==
    \A r \in registrations :
        (Quiet /\ r.totalAmount > 0 /\ r.paymentStatus = "completed" /\ reserved[r.id] >= 1)
        => /\ reserved[r.id] = 1
           /\ Cardinality(TicketsOf(r.id)) = r.seats

\* C9: a registration for which no handler is minting owns either no ticket
\* or exactly seats tickets: tickets are never minted a second time.
C9_SeatsTicketsOrNone ==
    \A r \in registrations :
        (\A p \in Procs : ~Free(p) => h[p].regId # r.id)
        => Cardinality(TicketsOf(r.id)) \in {0, r.seats}

\* C10: over any number of sweeps a registration receives at most one reminder.
C10_AtMostOneReminder == \A r \in RegIds : reminders[r] <= 1

\* C11: a copyEvent call that answers has added one event whose remaining
\* equals its own capacity, and has left every event that existed unchanged.
C11_CopyHasFreshPool ==
    [][\A p \in Procs :
         (h[p].pc = "copy_create" /\ h'[p].pc = "done")
         => /\ h'[p].result = "copied"
            /\ DOMAIN events' = DOMAIN events \cup {h'[p].key}
            /\ h'[p].key \notin DOMAIN events
            /\ events'[h'[p].key].remaining = events'[h'[p].key].capacity
            /\ \A e \in DOMAIN events : events'[e] = events[e]]_vars

\* a copy has answered while the source had seats taken, and the copy has a
\* capacity of its own
C11_Witness ==
    \E p \in Procs :
        /\ Answered(p, "copy") /\ h[p].result = "copied"
        /\ events[h[p].eventId].remaining < events[h[p].eventId].capacity
        /\ events[h[p].key].capacity # events[h[p].eventId].capacity
        /\ events[h[p].key].remaining = events[h[p].key].capacity

\* C12: check-in is one-way: a ticket that has checkedIn = true has it in
\* every later state, whatever operation runs.
C12_CheckInOneWay ==
    [][\A t \in tickets :
         t.checkedIn => \E u \in tickets' : u.id = t.id /\ u.checkedIn]_vars

\* a checked-in ticket was presented again, and tickets were minted after it
C12_Witness ==
    \E t \in tickets :
        /\ t.checkedIn
        /\ \E p \in Procs : /\ Answered(p, "checkin")
                             /\ h[p].key = t.ticketCode
                             /\ h[p].result = "already_checked_in"
        /\ \E u \in tickets : u.id > t.id /\ ~u.checkedIn

\* C13: right after the refund path has run for a registration whose seats
\* were reserved (once), its payment is cancelled, the registration is
\* refunded and cancelled, and the event has its seats back: remaining is
\* raised by seats, here back to capacity.
C13_RefundReleases ==
    \A r \in registrations :
        (/\ Answered(Solo, "refund") /\ h[Solo].result = "refunded"
         /\ h[Solo].regId = r.id
         /\ reserved[r.id] = 1)
        => /\ \A q \in getPaymentByIntentId(h[Solo].key) : q.status = "cancelled"
           /\ r.paymentStatus = "refunded"
           /\ r.status = "cancelled"
           /\ events[r.eventId].remaining = events[r.eventId].capacity

\* C14: a register that finds remaining < seats on an event with
\* allowWaitlist takes the waitlist branch without writing anything, and the
\* branch answers waitlist having added exactly one registration (waitlist,
\* pending, totalAmount 0) and nothing else: events, tickets and payments are
\* unchanged.
C14_WaitlistOutcome ==
    [][\A p \in Procs :
         /\ (/\ Free(p) /\ h'[p] # h[p] /\ h'[p].op = "register"
              /\ h'[p].eventId \in DOMAIN events
              /\ events[h'[p].eventId].remaining < h'[p].seats
              /\ events[h'[p].eventId].allowWaitlist)
             => (h'[p].pc = "reg_waitlist" /\ UNCHANGED db)
         /\ (h[p].pc = "reg_waitlist" /\ h'[p] # h[p])
             => /\ h'[p].pc = "done" /\ h'[p].result = "waitlist"
                /\ \E r \in registrations' :
                     /\ r \notin registrations
                     /\ registrations' = registrations \cup {r}
                     /\ r.id = h'[p].regId /\ r.eventId = h[p].eventId /\ r.seats = h[p].seats
                     /\ r.status = "waitlist" /\ r.paymentStatus = "pending"
                     /\ r.totalAmount = 0
                /\ UNCHANGED <<events, tickets, payments>>]_vars

\* a request was put on the waitlist of an event that another registration
\* had filled
C14_Witness ==
    \E p \in Procs :
        /\ Answered(p, "register") /\ h[p].result = "waitlist"
        /\ Row(h[p].regId).status = "waitlist"
        /\ events[h[p].eventId].remaining = 0
        /\ \E r \in registrations : r.status = "confirmed" /\ TicketsOf(r.id) # {}

\* C15: a register request that is rejected (invalid body, unknown event, or
\* full without waitlist) writes nothing: the step that answers it leaves all
\* tables and the provider unchanged, and no registration ever stems from
\* such a request (out-of-range seats, unknown event, waitlist not allowed).
C15_RejectionChangesNothing ==
    /\ [](\A r \in registrations :
            /\ r.seats >= MinSeats /\ r.seats <= MaxSeats
            /\ r.eventId \in DOMAIN events
            /\ (r.status = "waitlist" => events[r.eventId].allowWaitlist))
    /\ [][\A p \in Procs :
            (/\ Free(p) /\ h'[p] # h[p] /\ h'[p].op = "register"
             /\ h'[p].result \in {"invalid", "not_found", "full"})
            => UNCHANGED <<db, provider>>]_vars

\* one request was refused for lack of seats and another as invalid or for an
\* unknown event, while the registration that filled the event stands
C15_Witness ==
    \E p, q \in Procs :
        /\ Answered(p, "register") /\ h[p].result = "full"
        /\ events[h[p].eventId].remaining < h[p].seats
        /\ Answered(q, "register") /\ h[q].result \in {"invalid", "not_found"}
        /\ Cardinality(registrations) = 1
        /\ \A r \in registrations : Cardinality(TicketsOf(r.id)) = r.seats

\* C16: the processing of a failure notification for a known intent never
\* writes events or tickets, and when it ends the payment of the intent has
\* status failed and its registration paymentStatus failed.
C16_FailureMarksFailed ==
    [][\A p \in Procs :
         /\ (/\ h'[p] # h[p]
              /\ \/ h[p].pc \in {"wh_fail_payment", "wh_fail_registration"}
                 \/ h'[p].pc \in {"wh_fail_payment", "wh_fail_registration"})
             => UNCHANGED <<events, tickets>>
         /\ (h[p].pc = "wh_fail_registration" /\ h'[p].pc = "done")
             => /\ \A q \in payments' :
                     q.stripePaymentIntentId = h[p].key => q.status = "failed"
                /\ \E r \in registrations' :
                     r.id = h[p].regId /\ r.paymentStatus = "failed"]_vars

\* a failure notification has been processed for a registration that holds
\* seats and tickets
C16_Witness ==
    /\ Answered(Solo, "webhook")
    /\ \E q \in payments :
         /\ q.stripePaymentIntentId = h[Solo].key /\ q.status = "failed"
         /\ Row(q.registrationId).paymentStatus = "failed"
         /\ TicketsOf(q.registrationId) # {}
         /\ events[Row(q.registrationId).eventId].remaining
              < events[Row(q.registrationId).eventId].capacity

\* C17: notifications processed late or twice do not corrupt the outcome: no
\* step turns a registration's paymentStatus from completed to failed, and
\* none turns it from refunded back to completed.
C17_LateNotificationHarmless ==
    [][\A r \in registrations : \A u \in registrations' :
         u.id = r.id
         => /\ ~(r.paymentStatus = "completed" /\ u.paymentStatus = "failed")
            /\ ~(r.paymentStatus = "refunded" /\ u.paymentStatus = "completed")]_vars

\* C18: a checkIn of a ticket that is checked in answers AlreadyCheckedIn, a
\* checkIn of an unknown code answers NotFound, and in both cases the step
\* writes nothing (the ticket keeps its checkedInAt).
C18_CheckInRefusals ==
    [][\A p \in Procs :
         (Free(p) /\ h'[p] # h[p] /\ h'[p].op = "checkin")
         => /\ getTicketByCode(h'[p].key) = {}
                => (h'[p].result = "not_found" /\ UNCHANGED db)
            /\ (\E t \in getTicketByCode(h'[p].key) : t.checkedIn)
                => (h'[p].result = "already_checked_in" /\ UNCHANGED db)]_vars

\* a checked-in ticket was refused and still carries the time of its
\* check-in, which is past; an unknown code was refused
C18_Witness ==
    \E p, q \in Procs :
        /\ Answered(p, "checkin") /\ h[p].result = "already_checked_in"
        /\ \E t \in getTicketByCode(h[p].key) : t.checkedIn /\ t.checkedInAt < now
        /\ Answered(q, "checkin") /\ h[q].result = "not_found"

\* C19: a completePendingRegistration for a registration that does not exist
\* or whose paymentStatus is not completed is refused, and the step writes
\* nothing: remaining is unchanged and no ticket is created.
C19_CompleteRefused ==
    [][\A p \in Procs :
         (/\ Free(p) /\ h'[p] # h[p] /\ h'[p].op = "complete"
          /\ ~\E r \in registrations :
                 r.id = h'[p].regId /\ r.paymentStatus = "completed")
         => (h'[p].pc = "done" /\ h'[p].result = "conflict" /\ UNCHANGED db)]_vars

\* a completion was refused for a refunded registration that holds tickets
C19_Witness ==
    /\ Answered(Solo, "complete") /\ h[Solo].result = "conflict"
    /\ \E r \in registrations :
         /\ r.id = h[Solo].regId /\ r.paymentStatus = "refunded"
         /\ Cardinality(TicketsOf(r.id)) = r.seats
         /\ events[r.eventId].remaining = events[r.eventId].capacity - r.seats

\* C20: registration creation is all-or-nothing: a free registration that is
\* confirmed and completed, and that no handler is still working on, has its
\* capacity decrement and exactly seats tickets, also when a step failed.
C20_AllOrNothing ==
    \A r \in registrations :
        (/\ r.status = "confirmed" /\ r.paymentStatus = "completed" /\ r.totalAmount = 0
         /\ \A p \in Procs : ~Free(p) => h[p].regId # r.id)
        => /\ reserved[r.id] >= 1
           /\ Cardinality(TicketsOf(r.id)) = r.seats

\* C21: when the provider creates no intent during a paid register, the
\* request fails and, from then on, the row it left has paymentStatus
\* pending, owns no ticket and no payment, and no capacity was written for
\* it (with no other registration, remaining still equals capacity).
C21_IntentFailureLeavesPending ==
    \A p \in Procs : \A r \in registrations :
        (/\ Answered(p, "register") /\ h[p].regId = r.id
         /\ r.totalAmount > 0
         /\ stripe[r.id] = "none")
        => /\ h[p].result = "error"
           /\ r.paymentStatus = "pending"
           /\ TicketsOf(r.id) = {}
           /\ {q \in payments : q.registrationId = r.id} = {}
           /\ reserved[r.id] = 0
           /\ (registrations = {r} => events[r.eventId].remaining = events[r.eventId].capacity)

\* a paid register failed at the intent, and a completion of the row it left
\* was refused
C21_Witness ==
    \E p, q \in Procs :
        /\ Answered(p, "register") /\ h[p].result = "error"
        /\ Row(h[p].regId).totalAmount > 0 /\ stripe[h[p].regId] = "none"
        /\ Answered(q, "complete") /\ h[q].result = "conflict" /\ h[q].regId = h[p].regId

\* C22: a failed confirmation e-mail is not fatal: a register that has
\* committed its free registration, the capacity decrement and all its
\* tickets answers confirmed.
C22_MailFailureNotFatal ==
    \A p \in Procs : \A r \in registrations :
        (/\ Answered(p, "register") /\ h[p].regId = r.id
         /\ r.totalAmount = 0 /\ r.status = "confirmed" /\ r.paymentStatus = "completed"
         /\ reserved[r.id] = 1
         /\ Cardinality(TicketsOf(r.id)) = r.seats)
        => h[p].result = "confirmed"

\* C23: the reminder sweep never has two runs active at once: a cron firing
\* that comes while the previous run is still sending is skipped.
C23_NoOverlappingSweeps ==
    Cardinality({p \in Procs : h[p].op = "sweep" /\ ~Free(p)}) <= 1

\* C24: within a sweep a send, failed or not, is followed by the send for the
\* next selected registration, and the sweep ends, without raising, only
\* after the last one.
C24_BatchSurvivesFailure ==
    /\ [](\A p \in Procs : h[p].pc = "sw_send" => h[p].queue # <<>>)
    /\ [][\A p \in Procs :
            (h[p].pc = "sw_send" /\ h'[p] # h[p])
            => \/ /\ Tail(h[p].queue) # <<>>
                  /\ h'[p].pc = "sw_send" /\ h'[p].queue = Tail(h[p].queue)
               \/ /\ Tail(h[p].queue) = <<>>
                  /\ h'[p].pc = "done" /\ h'[p].result = "swept"]_vars

\* the first sweep selected two registrations, its send for the first of
\* them failed, and it is about to send for the second
C24_Witness ==
    /\ sweeps = 1
    /\ h[Solo].pc = "sw_send" /\ Len(h[Solo].queue) = 1
    /\ \E r \in remindersToSend :
         r.id # Head(h[Solo].queue) /\ reminders[r.id] = 0 /\ r.id > Head(h[Solo].queue)

\* C25: a sweep started at time now selects a registration for a reminder if
\* and only if its status is confirmed, its paymentStatus is completed and
\* its event starts within [now + 23 h, now + 24 h], and it attempts a send
\* for the selected registrations only.
C25_SweepSelection ==
    [][\A p \in Procs :
         LET due == {r.id : r \in {r \in registrations :
                        /\ r.status = "confirmed"
                        /\ r.paymentStatus = "completed"
                        /\ events[r.eventId].startTime >= now + WindowLo
                        /\ events[r.eventId].startTime <= now + WindowHi}}
             queued == {h'[p].queue[i] : i \in 1..Len(h'[p].queue)}
         IN  /\ (Free(p) /\ h'[p] # h[p] /\ h'[p].op = "sweep")
                 => /\ queued = due
                    /\ Len(h'[p].queue) = Cardinality(due)
                    /\ (due = {} <=> h'[p].pc = "done")
             /\ (h[p].pc = "sw_send" /\ h'[p] # h[p])
                 => \A r \in RegIds :
                      reminders'[r] # reminders[r] => r = Head(h[p].queue)]_vars

\* a registration was reminded while it was completed; it is now refunded
\* and cancelled, its event still starts within the window, and the sweep of
\* this period has passed it over
C25_Witness ==
    /\ Answered(Solo, "sweep") /\ sweeps = now + 1 /\ now >= 1
    /\ \E r \in registrations :
         /\ r.status = "cancelled" /\ r.paymentStatus = "refunded"
         /\ events[r.eventId].startTime >= now + WindowLo
         /\ events[r.eventId].startTime <= now + WindowHi
         /\ reminders[r.id] = 1

\* C26: a notification for an intent no payment refers to changes no table
\* and, unless storage fails, is acknowledged; a notification whose
\* signature does not verify is rejected in one step that changes nothing;
\* and a handler whose write did not take place does not acknowledge.
C26_WebhookFailureSemantics ==
    [][\A p \in Procs :
         (h'[p] # h[p] /\ h'[p].op = "webhook")
         => /\ (h'[p].key # UnknownId /\ getPaymentByIntentId(h'[p].key) = {})
                => /\ UNCHANGED db
                   /\ (h'[p].pc = "done" => h'[p].result \in {"received", "error"})
            /\ (h'[p].key = UnknownId)
                => (Free(p) /\ h'[p].pc = "done" /\ h'[p].result = "rejected"
                    /\ UNCHANGED <<db, provider>>)
            /\ (h[p].pc \in {"wh_update_payment", "wh_fail_payment"}
                 /\ payments' = payments /\ (\E q \in payments : q.id = h[p].key /\ q.status = "pending"))
                => (h'[p].pc = "done" /\ h'[p].result # "received")
            /\ (h[p].pc \in {"wh_update_registration", "wh_fail_registration"}
                 /\ registrations' = registrations
                 /\ (\E r \in registrations : r.id = h[p].regId /\ r.paymentStatus = "pending"))
                => (h'[p].pc = "done" /\ h'[p].result # "received")
            /\ (h[p].pc = "wh_get_payment" /\ h'[p].pc = "done"
                 /\ getPaymentByIntentId(h[p].key) # {})
                => h'[p].result # "received"]_vars

\* a success notification of a foreign intent was acknowledged while a
\* registration waits for its payment, untouched
C26_Witness ==
    /\ Answered(Solo, "webhook") /\ h[Solo].result = "received"
    /\ h[Solo].key = ForeignIntent /\ getPaymentByIntentId(ForeignIntent) = {}
    /\ stripe[ForeignIntent] = "succeeded"
    /\ \E r \in registrations : r.paymentStatus = "pending" /\ r.totalAmount > 0
    /\ \E q \in payments : q.status = "pending"

\* C27: verifyTicket writes nothing; for an unknown code it answers NotFound,
\* and otherwise the flag of its answer is the checkedIn value of the ticket
\* it read.
C27_VerifyReadOnly ==
    [][\A p \in Procs :
         (h'[p] # h[p] /\ h'[p].op = "verify")
         => /\ UNCHANGED <<db, provider>>
            /\ Free(p)
                => IF getTicketByCode(h'[p].key) = {}
                   THEN h'[p].pc = "done" /\ h'[p].result = "not_found"
                   ELSE h'[p].pc = "vfy_get_registration"
                        /\ h'[p].ticket \in getTicketByCode(h'[p].key)
            /\ (h[p].pc = "vfy_get_registration" /\ getRegistration(h[p].regId) # {})
                => /\ h'[p].pc = "done"
                   /\ h'[p].result = "valid_checked_in" <=> h[p].ticket.checkedIn
                   /\ h'[p].result = "valid" <=> ~h[p].ticket.checkedIn]_vars

\* a checked-in ticket was verified and reported as checked in, and an
\* unknown code was refused
C27_Witness ==
    \E p, q \in Procs :
        /\ Answered(p, "verify") /\ h[p].result = "valid_checked_in"
        /\ \E t \in getTicketByCode(h[p].key) : t.checkedIn
        /\ Answered(q, "verify") /\ h[q].result = "not_found"

\* C28: deleting an event removes every registration of that event and every
\* ticket and payment of those registrations; deleting a registration removes
\* its tickets and payments; no ticket or payment ever refers to a
\* registration that no longer exists (nor a registration to a deleted event).
C28_CascadeDelete ==
    /\ [](/\ \A t \in tickets : \E r \in registrations : r.id = t.registrationId
          /\ \A q \in payments : \E r \in registrations : r.id = q.registrationId
          /\ \A r \in registrations : r.eventId \in DOMAIN events)
    /\ [][/\ \A id \in DOMAIN events :
               id \notin DOMAIN events' =>
                 \A r \in registrations :
                   r.eventId = id =>
                     /\ r \notin registrations'
                     /\ \A t \in tickets' : t.registrationId # r.id
                     /\ \A q \in payments' : q.registrationId # r.id
          /\ \A r \in registrations :
               (\A r2 \in registrations' : r2.id # r.id) =>
                 /\ \A t \in tickets' : t.registrationId # r.id
                 /\ \A q \in payments' : q.registrationId # r.id]_vars

\* the event has been deleted after a registration was stored and tickets
\* were minted for it: no registration, ticket or payment is left
C28_Witness ==
    /\ Answered(Admin, "delete_event") /\ h[Admin].result = "deleted"
    /\ h[Admin].eventId \notin DOMAIN events
    /\ nextTicketId > 1
    /\ nextRegId > 1
    /\ registrations = {} /\ tickets = {} /\ payments = {}

\* C29: an admin-only operation (event create, update, delete, copy,
\* registration listing and export, stats) is carried out only for a caller
\* whose session has isAdmin = true; any other caller is refused, learns
\* nothing and leaves the state unchanged; isAdmin becomes true only through
\* a login with the configured password.
C29_AdminGate ==
    [][\A p \in Procs :
         /\ (Free(p) /\ h'[p] # h[p] /\ h'[p].op \in AdminOps)
              => IF session[p].isAdmin
                 THEN h'[p].result # "unauthorized"
                 ELSE /\ h'[p].pc = "done" /\ h'[p].result = "unauthorized"
                      /\ h'[p].body = NoPatch
                      /\ UNCHANGED <<db, provider, session>>
         /\ (session'[p].isAdmin /\ ~session[p].isAdmin)
              => /\ Free(p) /\ h'[p].op = "login" /\ h'[p].result = "logged_in"
                 /\ h'[p].body.password = adminPassword
         /\ (~Free(p) /\ h[p].op \in AdminOps /\ h'[p] # h[p])
              => session[p].isAdmin]_vars

\* one caller has been refused at an admin route while another, logged in,
\* has deleted the event
C29_Witness ==
    \E p, q \in Procs :
        /\ Answered(p, "delete_event") /\ h[p].result = "unauthorized"
        /\ ~session[p].isAdmin
        /\ Answered(q, "delete_event") /\ h[q].result = "deleted"
        /\ session[q].isAdmin
        /\ DOMAIN events = {}

\* C30: the paid path admits the documented race: two paid register requests
\* for the last remaining seat of an event both return payment_required, each
\* with its own pending Payment (and its own registration), the seat still free.
C30_LastSeatOfferedTwice ==
    \A e \in DOMAIN events : \A p, q \in Procs :
        (/\ p # q
         /\ events[e].price > 0
         /\ events[e].remaining = 1
         /\ \A c \in {p, q} : /\ Answered(c, "register")
                              /\ h[c].eventId = e
                              /\ h[c].seats = 1
                              /\ h[c].result = "payment_required")
        => /\ h[p].regId # h[q].regId
           /\ \A c \in {p, q} :
                /\ \E r \in registrations :
                     /\ r.id = h[c].regId /\ r.eventId = e
                     /\ r.status = "confirmed" /\ r.paymentStatus = "pending"
                /\ \E x \in payments :
                     /\ x.registrationId = h[c].regId
                     /\ x.status = "pending"
                     /\ \A y \in payments : y.registrationId # h[c].regId => y.id # x.id

\* both requests for the single seat of a paid event have been answered
\* payment_required and two Payment rows are stored
C30_Witness ==
    \E e \in DOMAIN events : \E p, q \in Procs :
        /\ p # q
        /\ events[e].price > 0
        /\ events[e].capacity = 1 /\ events[e].remaining = 1
        /\ \A c \in {p, q} : /\ Answered(c, "register")
                             /\ h[c].eventId = e
                             /\ h[c].seats = 1
                             /\ h[c].result = "payment_required"
        /\ Cardinality(payments) = 2
        /\ \A x \in payments : x.status = "pending"

\* the seats of a set of registrations, summed
RECURSIVE SeatsOf(_)
SeatsOf(regs) ==
    IF regs = {} THEN 0
    ELSE LET r == CHOOSE r \in regs : TRUE IN r.seats + SeatsOf(regs \ {r})

\* C31: seats are conserved: in every quiescent state capacity - remaining of
\* an event equals the sum of seats over its registrations that own tickets.
C31_SeatsConserved ==
    Quiet =>
      \A e \in DOMAIN events :
        events[e].capacity - events[e].remaining =
          SeatsOf({r \in registrations : r.eventId = e /\ TicketsOf(r.id) # {}})

\* C32: a ticket has checkedInAt set if and only if checkedIn = true, and once
\* checkedInAt is set no later step, of a sequential or a concurrent checkIn
\* call, changes it.
C32_CheckedInAtStable ==
    /\ [](\A t \in tickets : (t.checkedInAt # -1) <=> t.checkedIn)
    /\ [][\A t \in tickets :
            t.checkedInAt # -1 =>
              \E u \in tickets' : u.id = t.id /\ u.checkedInAt = t.checkedInAt]_vars

\* C33: at the moment a ticket is created its owning registration has status
\* confirmed and paymentStatus completed, whatever interleaves with the
\* completion; a registration with status waitlist never owns a ticket.
C33_TicketsOnlyForCompleted ==
    /\ [](\A r \in registrations : r.status = "waitlist" => TicketsOf(r.id) = {})
    /\ [][\A t \in tickets' :
            (\A u \in tickets : u.id # t.id) =>
              \E r \in registrations :
                /\ r.id = t.registrationId
                /\ r.status = "confirmed"
                /\ r.paymentStatus = "completed"]_vars

\* C34: checkIn(code) succeeds only for a ticket whose owning registration
\* has status confirmed and paymentStatus completed; a ticket of a cancelled
\* or refunded registration cannot be checked in.
C34_CheckInOnlyForValid ==
    [][\A p \in Procs :
         (h[p].op = "checkin" /\ ~Free(p) /\ h'[p].pc = "done" /\ h'[p].result = "checked_in")
         => \E r \in registrations :
              /\ r.id = h[p].regId
              /\ r.status = "confirmed"
              /\ r.paymentStatus = "completed"]_vars

\* the paymentStatus of a registration that goes with a Payment.status
Agreeing(status) ==
    CASE status = "pending" -> "pending"
      [] status = "succeeded" -> "completed"
      [] status = "failed" -> "failed"
      [] status = "cancelled" -> "refunded"
      [] OTHER -> "none"

\* C35: in every quiescent state Payment.status and the owning registration's
\* paymentStatus agree (pending/pending, succeeded/completed, failed/failed,
\* cancelled/refunded), and every registration with paymentStatus pending and
\* totalAmount > 0 that returned payment_required has exactly one Payment.
C35_PaymentAgrees ==
    Quiet =>
      /\ \A q \in payments :
           \E r \in registrations :
             r.id = q.registrationId /\ r.paymentStatus = Agreeing(q.status)
      /\ \A r \in registrations :
           (/\ r.paymentStatus = "pending" /\ r.totalAmount > 0
            /\ \E p \in Procs : /\ h[p].op = "register" /\ h[p].regId = r.id
                                 /\ h[p].result = "payment_required")
           => Cardinality({q \in payments : q.registrationId = r.id}) = 1

\* C36: in every reachable state no two tickets share a ticketCode, across
\* all registrations, and a ticket's qrData is the verification payload
\* derived from its own ticketCode.
C36_CodesUnique ==
    /\ \A t, u \in tickets : t.ticketCode = u.ticketCode => t = u
    /\ \A t \in tickets : t.qrData = generateQRData(t.ticketCode)

\* the generator returned a code that another registration's ticket carries:
\* the insert was refused and the request is left short of a ticket
C36_Witness ==
    \E p \in Procs :
        /\ Answered(p, "register") /\ h[p].result = "error"
        /\ getRegistration(h[p].regId) # {}
        /\ Cardinality(TicketsOf(h[p].regId)) < h[p].seats
        /\ \E t \in tickets : t.registrationId # h[p].regId

\* C37: an admin updateEvent preserves 0 <= remaining <= capacity: no step of
\* an update, or of a register it interleaves with, takes an event from
\* inside that range to outside of it.
C37_UpdateKeepsRange ==
    [][\A e \in DOMAIN events \cap DOMAIN events' :
         (0 <= events[e].remaining /\ events[e].remaining <= events[e].capacity)
         => (0 <= events'[e].remaining /\ events'[e].remaining <= events'[e].capacity)]_vars

\* C38: createEvent always stores remaining equal to the supplied capacity,
\* whatever remaining the caller supplied: every newly created event starts
\* with a full seat pool, and the events that existed are left as they were.
C38_CreateStartsFull ==
    [][\A p \in Procs :
         (Free(p) /\ h'[p] # h[p] /\ h'[p].op = "create_event" /\ h'[p].result = "created")
         => /\ h'[p].key \notin DOMAIN events
            /\ DOMAIN events' = DOMAIN events \cup {h'[p].key}
            /\ events'[h'[p].key].capacity = h'[p].body.capacity
            /\ events'[h'[p].key].remaining = h'[p].body.capacity
            /\ \A e \in DOMAIN events : events'[e] = events[e]]_vars

\* an event was created from a body whose remaining differs from its
\* capacity, and is stored with remaining = capacity
C38_Witness ==
    \E p \in Procs :
        /\ Answered(p, "create_event") /\ h[p].result = "created"
        /\ h[p].body.remaining # h[p].body.capacity
        /\ h[p].body.capacity > 0
        /\ events[h[p].key].capacity = h[p].body.capacity
        /\ events[h[p].key].remaining = h[p].body.capacity

====
